---- MODULE Spec2Model ----
(***************************************************************************)
(* The streaming control loop of examples/whisper.py (main, lines 239-377) *)
(* together with the capture callback that feeds it.  The consumer is      *)
(* modelled statement group by statement group (pc names the next group),  *)
(* the producer and the wall clock run concurrently with it, and a         *)
(* KeyboardInterrupt may be delivered to the consumer at any position.     *)
(***************************************************************************)
EXTENDS Integers, Sequences, FiniteSets, TLC

(* ------------------------------ bounds -------------------------------- *)
\* chunks the capture callback delivers in one run
MaxChunks == 2
\* KeyboardInterrupts delivered in one run
MaxInterrupts == 2
\* dims['n_text_ctx']: rows of TextDecoder.positional_embedding
n_text_ctx == 2
\* number of mergeable (non-special) tokens of the vocabulary
n_ordinary == 0
\* args.phrase_timeout, in clock ticks
phrase_timeout == 1
\* largest batch size of an attention call
MaxBatch == 2
\* largest sequence length of an attention call
MaxLen == 4
\* largest number of attention heads
MaxHeads == 2
\* largest width of one attention head
MaxHeadDim == 2

(* ----------------------------- vocabulary ----------------------------- *)
\* special tokens are numbered after the mergeable ranks, in list order
EOT == n_ordinary
SOT == n_ordinary + 1
n_vocab == n_ordinary + 2

\* the text "<|endoftext|>" as a sequence of text pieces
EOTText == <<"<|", "endoftext", "|>">>

\* the bytes a single token id decodes to
TokenBytes(id) ==
  IF id = EOT THEN EOTText
  ELSE IF id = SOT THEN <<"<|", "startoftranscript", "|>">>
  ELSE IF id = 0 THEN <<"<|", "endoftext">>
  ELSE IF id = 1 THEN <<"|>">>
  ELSE <<"a">>

RECURSIVE decode(_)
\* enc.decode: the concatenation of the tokens' bytes
decode(l) ==
  IF l = <<>> THEN <<>> ELSE TokenBytes(Head(l)) \o decode(Tail(l))

\* Python's `marker in text` on strings
Contains(t, marker) ==
  \E i \in 0..(Len(t) - Len(marker)) : SubSeq(t, i + 1, i + Len(marker)) = marker

(* ------------------------- values and helpers ------------------------- *)
\* last_sample = None; chunk payloads are numbered from 1
None == <<0>>
\* phrase_time = None: there is no time since the last phrase began
NoTime == -1
\* a local name that has not been assigned yet
Unbound == <<"unbound">>

\* a queue that hands back the newest chunk first
put_nowait_lifo(q, data) == <<data>> \o q

\* Queue.put_nowait
put_nowait(q, data) == Append(q, data)

\* lines 318-321: first chunk initialises the buffer, later ones are appended
add_sample(sample, waveform) ==
  IF sample = None THEN <<waveform>> ELSE Append(sample, waveform)

\* lines 323-331: feature extraction and model.encoder on the whole buffer
encoder(sample) == <<"memory", sample>>

\* a step that overwrites the token emitted last instead of appending
list_append_overwrite(l, i) == [l EXCEPT ![Len(l)] = i]

\* line 340: lst.append(idx)
list_append(l, i) == Append(l, i)

\* an exit test that needs both conditions
exit_test_and(age, t) ==
  (age > phrase_timeout) /\ Contains(t, EOTText)

\* line 350: the loop-exit test, on the value of time.time() - phrase_time
exit_test(age, t) ==
  (age > phrase_timeout) \/ Contains(t, EOTText)

\* a decode loop whose body includes the encoder call
loop_head_reencode == "encode"

\* a decode loop whose body includes the drain of the queue
loop_head_redrain == "drain"

\* lines 336-352: an iteration of the decode loop ends at the loop's test
loop_head == "loop_test"

\* positions of the consumer inside the inner try (lines 338-352)
InnerTry == {"decode", "decode_text", "check", "set_complete", "reset_sample"}
\* positions inside the outer try only (lines 311-336, 359-362)
OuterTry == {"poll", "drain", "get", "encode", "loop_test", "commit"}


(* ------------------------- tensors and shapes ------------------------- *)
\* a tensor is kept as its shape, a sequence of dimension sizes; the mask is
\* kept with its values, as nested sequences
\* an argument that is None
NoTensor == <<>>
\* the result of an operation on shapes that do not fit
ShapeError == <<-1>>
\* float("-inf"), line 105
NegInf == -1

Min(a, b) == IF a < b THEN a ELSE b
Max(a, b) == IF a > b THEN a ELSE b

RECURSIVE Prod(_)
Prod(sh) == IF sh = <<>> THEN 1 ELSE Head(sh) * Prod(Tail(sh))

\* nn.Linear(n_in, n_out) on a tensor of shape sh
Linear(sh, n_in, n_out) ==
  IF sh = ShapeError \/ sh[Len(sh)] # n_in THEN ShapeError
  ELSE [sh EXCEPT ![Len(sh)] = n_out]

\* t.reshape(*t.shape[:2], n_head, -1)
reshape_heads(sh, heads) ==
  IF sh = ShapeError \/ Len(sh) # 3 \/ sh[3] % heads # 0 THEN ShapeError
  ELSE <<sh[1], sh[2], heads, sh[3] \div heads>>

\* t.permute(order), order counted from 0 as in the source
permute(sh, order) ==
  IF sh = ShapeError \/ Len(sh) # Len(order) THEN ShapeError
  ELSE [i \in 1..Len(order) |-> sh[order[i] + 1]]

\* a @ b on two 4-dimensional tensors with equal leading dimensions
matmul(a, b) ==
  IF a = ShapeError \/ b = ShapeError \/ Len(a) # 4 \/ Len(b) # 4
       \/ a[1] # b[1] \/ a[2] # b[2] \/ a[4] # b[3]
    THEN ShapeError
    ELSE <<a[1], a[2], a[3], b[4]>>

\* the shape of a + b under broadcasting, for two 4-dimensional tensors
broadcast(a, b) ==
  IF a = ShapeError \/ b = ShapeError \/ Len(a) # 4 \/ Len(b) # 4
       \/ \E i \in 1..4 : a[i] # b[i] /\ a[i] # 1 /\ b[i] # 1
    THEN ShapeError
    ELSE [i \in 1..4 |-> Max(a[i], b[i])]

\* a flatten that leaves the heads apart
flatten_none(sh) == sh

\* t.flatten(start_dim=2)
flatten(sh) ==
  IF sh = ShapeError \/ Len(sh) < 3 THEN ShapeError
  ELSE <<sh[1], sh[2], Prod(SubSeq(sh, 3, Len(sh)))>>

\* np.full((1, 1, rows, cols), value)
np_full(rows, cols, value) ==
  << << [i \in 1..rows |-> [j \in 1..cols |-> value]] >> >>

\* np.triu(m, k) on the last two dimensions: entries below the k-th
\* diagonal become 0
np_triu(m, k) ==
  [a \in 1..Len(m) |-> [b \in 1..Len(m[a]) |->
     [i \in 1..Len(m[a][b]) |-> [j \in 1..Len(m[a][b][i]) |->
        IF j - i >= k THEN m[a][b][i][j] ELSE 0]]]]

\* a mask that also hides the diagonal
causal_mask_diag(seqlen, start_pos) ==
  np_triu(np_full(seqlen, start_pos + seqlen, NegInf), start_pos)

\* lines 103-107: the mask TextDecoder builds for one call
causal_mask(seqlen, start_pos) ==
  np_triu(np_full(seqlen, start_pos + seqlen, NegInf), start_pos + 1)

\* mask[:n_ctx, :n_ctx], line 52: a slice of the first two dimensions
slice2(m, n_ctx) ==
  [a \in 1..Min(Len(m), n_ctx) |-> SubSeq(m[a], 1, Min(Len(m[a]), n_ctx))]

\* the shape of a 4-dimensional tensor kept with its values
shape_of(m) == <<Len(m), Len(m[1]), Len(m[1][1]), Len(m[1][1][1])>>

VARIABLES
  pc,              \* position of the consumer (main thread)
  data_queue,      \* the Queue shared with the capture callback
  produced,        \* chunks the callback has enqueued so far
  dequeued,        \* history: chunks in the order data_queue.get returned them
  last_sample,     \* raw-sample buffer
  phrase_age,      \* time.time() - phrase_time, counted up to phrase_timeout + 1
  phrase_complete,
  encoded_audio,
  lst,             \* token sequence
  text,
  transcription,
  interrupts,      \* KeyboardInterrupts delivered so far
  cycle_encodes,   \* history: model.encoder calls since the cycle began
  cycle_decodes,   \* history: model.decoder calls since the cycle began
  dec_mem,         \* history: encoder memory passed to the last decoder call
  decoding,        \* history: drain finished, decode loop not yet left
  reset_at,        \* history: chunks dequeued before the buffer was last reset
  cancelled,       \* history: the decode loop was left by KeyboardInterrupt
  last_check,      \* history: outcome of the cycle's latest test at line 350
  cycle_gets,      \* history: data_queue.get calls since the cycle began
  completed,       \* history: phrases marked complete (line 351) so far
  apc,             \* position inside one attention call
  x,               \* shape of the query input
  xa,              \* shape of the cross-attention input, or NoTensor
  n_head,
  use_mask,        \* the caller is TextDecoder's self-attention
  mask,            \* the mask of the current decoder call, or NoTensor
  q, k, v,         \* shapes of the projections
  qk,              \* shape of the attention scores
  added,           \* the slice of the mask added to the scores, or NoTensor
  wv,              \* shape of the weighted values
  out              \* shape of the result

mvars == <<pc, data_queue, produced, dequeued, last_sample, phrase_age,
          phrase_complete, encoded_audio, lst, text, transcription, interrupts,
          cycle_encodes, cycle_decodes, dec_mem, decoding, reset_at,
          cancelled, last_check, cycle_gets, completed>>

\* the variables of an attention call
avars == <<apc, x, xa, n_head, use_mask, mask, q, k, v, qk, added, wv, out>>

vars == <<mvars, avars>>

\* the history variables of the exit test, the drain and the completions
hvars == <<last_check, cycle_gets, completed>>

cvars == <<last_sample, phrase_age, phrase_complete, encoded_audio, lst, text,
           transcription, cycle_encodes, cycle_decodes, dec_mem, decoding,
           reset_at, cancelled, dequeued>>

\* a queue that never reports itself empty
queue_empty_never(dq) == FALSE

\* lines 312 and 316: data_queue.empty()
queue_empty(dq) == dq = <<>>

\* a decode loop whose condition also tests the phrase timeout
loop_cond_timed(complete) == ~complete /\ phrase_age <= phrase_timeout

\* line 336: the decode loop's condition
loop_cond(complete) == ~complete

\* a commit that always appends
commit_text_append(tr, complete, t) == Append(tr, t)

\* lines 359-362: the transcript after the decode loop
commit_text(tr, complete, t) ==
  IF complete THEN Append(tr, t) ELSE [tr EXCEPT ![Len(tr)] = t]

MainInit ==
  /\ pc = "poll"
  /\ data_queue = <<>>
  /\ produced = 0
  /\ dequeued = <<>>
  /\ last_sample = None
  /\ phrase_age = NoTime
  /\ phrase_complete = FALSE
  /\ encoded_audio = Unbound
  /\ lst = <<>>
  /\ text = Unbound
  /\ transcription = << <<>> >>
  /\ interrupts = 0
  /\ cycle_encodes = 0
  /\ cycle_decodes = 0
  /\ dec_mem = Unbound
  /\ decoding = FALSE
  /\ reset_at = 0
  /\ cancelled = FALSE
  /\ last_check = "none"
  /\ cycle_gets = 0
  /\ completed = 0

\* no attention call is followed
AttnIdle ==
  /\ apc = "idle"
  /\ x = NoTensor /\ xa = NoTensor /\ n_head = 1 /\ use_mask = FALSE
  /\ mask = NoTensor /\ q = NoTensor /\ k = NoTensor /\ v = NoTensor
  /\ qk = NoTensor /\ added = NoTensor /\ wv = NoTensor /\ out = NoTensor

Init == MainInit /\ AttnIdle

(* ------------------------------ producer ------------------------------ *)
\* record_callback, lines 300-303
record_callback ==
  /\ UNCHANGED avars
  /\ produced < MaxChunks
  /\ produced' = produced + 1
  /\ data_queue' = put_nowait(data_queue, produced + 1)
  /\ UNCHANGED <<pc, interrupts>>
  /\ UNCHANGED cvars
  /\ UNCHANGED hvars

\* the wall clock advances.  The code reads the clock only at lines 311 and
\* 350, and uses it only in time.time() - phrase_time > phrase_timeout, so
\* the clock is kept as that difference and not counted past the first
\* value that exceeds phrase_timeout
Tick ==
  /\ UNCHANGED avars
  /\ phrase_age # NoTime
  /\ phrase_age <= phrase_timeout
  /\ phrase_age' = phrase_age + 1
  /\ UNCHANGED <<pc, data_queue, produced, dequeued, last_sample,
                 phrase_complete, encoded_audio, lst, text, transcription,
                 interrupts, cycle_encodes, cycle_decodes, dec_mem, decoding,
                 reset_at, cancelled>>
  /\ UNCHANGED hvars

(* ------------------------------ consumer ------------------------------ *)
\* lines 311-312 with an empty queue: the iteration does nothing
PollEmpty ==
  /\ pc = "poll"
  /\ queue_empty(data_queue)
  /\ UNCHANGED vars

\* lines 311-314 with a non-empty queue
PollData ==
  /\ UNCHANGED avars
  /\ pc = "poll"
  /\ ~queue_empty(data_queue)
  /\ phrase_complete' = FALSE
  /\ phrase_age' = 0
  /\ pc' = "drain"
  /\ cycle_encodes' = 0
  /\ cycle_decodes' = 0
  /\ cancelled' = FALSE
  /\ UNCHANGED <<data_queue, produced, dequeued, last_sample,
                 encoded_audio, lst, text, transcription,
                 interrupts, dec_mem, decoding, reset_at>>
  /\ last_check' = "none"
  /\ cycle_gets' = 0
  /\ UNCHANGED completed

\* line 316: the drain loop's test
DrainTest ==
  /\ UNCHANGED avars
  /\ pc = "drain"
  /\ pc' = IF ~queue_empty(data_queue) THEN "get" ELSE "encode"
  /\ decoding' = (decoding \/ queue_empty(data_queue))
  /\ UNCHANGED <<data_queue, produced, dequeued, last_sample,
                 phrase_age, phrase_complete, encoded_audio,
                 lst, text, transcription, interrupts,
                 cycle_encodes, cycle_decodes, dec_mem,
                 reset_at, cancelled>>
  /\ UNCHANGED hvars

\* lines 317-321: the get and the concatenation, taken as one step (an
\* interrupt between them leaves the main loop, which never reads the buffer
\* again)
Get ==
  /\ UNCHANGED avars
  /\ pc = "get"
  /\ data_queue # <<>>
  /\ data_queue' = Tail(data_queue)
  /\ dequeued' = Append(dequeued, Head(data_queue))
  /\ last_sample' = add_sample(last_sample, Head(data_queue))
  /\ pc' = "drain"
  /\ UNCHANGED <<produced, phrase_age, phrase_complete,
                 encoded_audio, lst, text, transcription,
                 interrupts, cycle_encodes, cycle_decodes,
                 dec_mem, decoding, cancelled, reset_at>>
  /\ cycle_gets' = cycle_gets + 1
  /\ UNCHANGED <<last_check, completed>>

\* lines 323-335
Encode ==
  /\ UNCHANGED avars
  /\ pc = "encode"
  /\ encoded_audio' = encoder(last_sample)
  /\ lst' = <<SOT>>
  /\ cycle_encodes' = cycle_encodes + 1
  /\ pc' = "loop_test"
  /\ UNCHANGED <<data_queue, produced, dequeued, last_sample,
                 phrase_age, phrase_complete, text,
                 transcription, interrupts, cycle_decodes,
                 dec_mem, decoding, cancelled, reset_at>>
  /\ UNCHANGED hvars

\* line 336
LoopTest ==
  /\ UNCHANGED avars
  /\ pc = "loop_test"
  /\ pc' = IF loop_cond(phrase_complete) THEN "decode" ELSE "commit"
  /\ decoding' = loop_cond(phrase_complete)
  /\ UNCHANGED <<data_queue, produced, dequeued, last_sample,
                 phrase_age, phrase_complete, encoded_audio,
                 lst, text, transcription, interrupts,
                 cycle_encodes, cycle_decodes, dec_mem,
                 cancelled, reset_at>>
  /\ UNCHANGED hvars

\* lines 338-340: one decoder call on the whole prefix, argmax, append
DecodeStep ==
  /\ UNCHANGED avars
  /\ pc = "decode"
  /\ Len(lst) <= n_text_ctx
  /\ \E idx \in 0..(n_vocab - 1) : lst' = list_append(lst, idx)
  /\ dec_mem' = encoded_audio
  /\ cycle_decodes' = cycle_decodes + 1
  /\ pc' = "decode_text"
  /\ UNCHANGED <<data_queue, produced, dequeued, last_sample,
                 phrase_age, phrase_complete, encoded_audio,
                 text, transcription, interrupts,
                 cycle_encodes, decoding, cancelled,
                 reset_at>>
  /\ UNCHANGED hvars

\* line 101: the prefix is longer than the positional embedding; the shape
\* error is not caught by either handler and ends the process
ShapeMismatch ==
  /\ UNCHANGED avars
  /\ pc = "decode"
  /\ Len(lst) > n_text_ctx
  /\ pc' = "crashed"
  /\ decoding' = FALSE
  /\ UNCHANGED <<data_queue, produced, dequeued, last_sample,
                 phrase_age, phrase_complete, encoded_audio,
                 lst, text, transcription, interrupts,
                 cycle_encodes, cycle_decodes, dec_mem,
                 cancelled, reset_at>>
  /\ UNCHANGED hvars

\* lines 341-344
DecodeText ==
  /\ UNCHANGED avars
  /\ pc = "decode_text"
  /\ text' = decode(lst)
  /\ pc' = "check"
  /\ UNCHANGED <<data_queue, produced, dequeued, last_sample,
                 phrase_age, phrase_complete, encoded_audio,
                 lst, transcription, interrupts,
                 cycle_encodes, cycle_decodes, dec_mem,
                 decoding, cancelled, reset_at>>
  /\ UNCHANGED hvars

\* line 350
CheckTimeout ==
  /\ UNCHANGED avars
  /\ pc = "check"
  /\ pc' = IF exit_test(phrase_age, text) THEN "set_complete" ELSE loop_head
  /\ UNCHANGED <<data_queue, produced, interrupts>>
  /\ UNCHANGED cvars
  /\ last_check' = IF exit_test(phrase_age, text) THEN "exit" ELSE "continue"
  /\ UNCHANGED <<cycle_gets, completed>>

\* line 351
SetComplete ==
  /\ UNCHANGED avars
  /\ pc = "set_complete"
  /\ phrase_complete' = TRUE
  /\ pc' = "reset_sample"
  /\ UNCHANGED <<data_queue, produced, dequeued, last_sample,
                 phrase_age, encoded_audio, lst, text,
                 transcription, interrupts, cycle_encodes,
                 cycle_decodes, dec_mem, decoding, cancelled,
                 reset_at>>
  /\ completed' = completed + 1
  /\ UNCHANGED <<last_check, cycle_gets>>

\* line 352
ResetSample ==
  /\ UNCHANGED avars
  /\ pc = "reset_sample"
  /\ last_sample' = None
  /\ reset_at' = Len(dequeued)
  /\ pc' = loop_head
  /\ UNCHANGED <<data_queue, produced, dequeued, phrase_age,
                 phrase_complete, encoded_audio, lst, text,
                 transcription, interrupts, cycle_encodes,
                 cycle_decodes, dec_mem, decoding, cancelled>>
  /\ UNCHANGED hvars

\* lines 359-362 with text bound
Commit ==
  /\ UNCHANGED avars
  /\ pc = "commit"
  /\ phrase_complete \/ text # Unbound
  /\ transcription' = commit_text(transcription, phrase_complete, text)
  /\ pc' = "poll"
  /\ UNCHANGED <<data_queue, produced, dequeued, last_sample,
                 phrase_age, phrase_complete, encoded_audio,
                 lst, text, interrupts, cycle_encodes,
                 cycle_decodes, dec_mem, decoding, cancelled,
                 reset_at>>
  /\ UNCHANGED hvars

\* line 362 when text was never assigned: the NameError is not caught
CommitUnbound ==
  /\ UNCHANGED avars
  /\ pc = "commit"
  /\ ~phrase_complete
  /\ text = Unbound
  /\ pc' = "crashed"
  /\ UNCHANGED <<data_queue, produced, interrupts>>
  /\ UNCHANGED cvars
  /\ UNCHANGED hvars

\* lines 354-355: KeyboardInterrupt inside the inner try leaves the decode loop
InterruptDecode ==
  /\ UNCHANGED avars
  /\ interrupts < MaxInterrupts
  /\ pc \in InnerTry
  /\ interrupts' = interrupts + 1
  /\ pc' = "commit"
  /\ cancelled' = TRUE
  /\ decoding' = FALSE
  /\ UNCHANGED <<data_queue, produced, dequeued, last_sample,
                 phrase_age, phrase_complete, encoded_audio,
                 lst, text, transcription, cycle_encodes,
                 cycle_decodes, dec_mem, reset_at>>
  /\ UNCHANGED hvars

\* lines 372-373: KeyboardInterrupt elsewhere in the outer try leaves the main loop
InterruptMain ==
  /\ UNCHANGED avars
  /\ interrupts < MaxInterrupts
  /\ pc \in OuterTry
  /\ interrupts' = interrupts + 1
  /\ pc' = "dump"
  /\ decoding' = FALSE
  /\ UNCHANGED <<data_queue, produced, dequeued, last_sample,
                 phrase_age, phrase_complete, encoded_audio,
                 lst, text, transcription, cycle_encodes,
                 cycle_decodes, dec_mem, cancelled, reset_at>>
  /\ UNCHANGED hvars

\* lines 375-377: the final transcript dump
Dump ==
  /\ UNCHANGED avars
  /\ pc = "dump"
  /\ pc' = "done"
  /\ UNCHANGED <<data_queue, produced, interrupts>>
  /\ UNCHANGED cvars
  /\ UNCHANGED hvars

\* KeyboardInterrupt during the dump is outside both handlers
InterruptDump ==
  /\ UNCHANGED avars
  /\ interrupts < MaxInterrupts
  /\ pc = "dump"
  /\ interrupts' = interrupts + 1
  /\ pc' = "killed"
  /\ UNCHANGED <<data_queue, produced>>
  /\ UNCHANGED cvars
  /\ UNCHANGED hvars

Next ==
  \/ record_callback
  \/ Tick
  \/ PollEmpty
  \/ PollData
  \/ DrainTest
  \/ Get
  \/ Encode
  \/ LoopTest
  \/ DecodeStep
  \/ ShapeMismatch
  \/ DecodeText
  \/ CheckTimeout
  \/ SetComplete
  \/ ResetSample
  \/ Commit
  \/ CommitUnbound
  \/ InterruptDecode
  \/ InterruptMain
  \/ Dump
  \/ InterruptDump

Spec == Init /\ [][Next]_vars

(* --------------------------- attention call --------------------------- *)
\* the inputs of one call: batch, lengths, heads and head width are drawn
\* from the bounds; the call is TextDecoder's masked self-attention, an
\* unmasked self-attention or a cross-attention (lines 68-69)
InitAttn ==
  /\ MainInit
  /\ apc = "start"
  /\ \E batch \in 1..MaxBatch, q_len \in 1..MaxLen, kv_len \in 0..MaxLen,
        heads \in 1..MaxHeads, d \in 1..MaxHeadDim :
       /\ x = <<batch, q_len, heads * d>>
       /\ xa = IF kv_len = 0 THEN NoTensor ELSE <<batch, kv_len, heads * d>>
       /\ n_head = heads
  /\ use_mask \in BOOLEAN
  /\ use_mask => xa = NoTensor
  /\ mask = NoTensor /\ q = NoTensor /\ k = NoTensor /\ v = NoTensor
  /\ qk = NoTensor /\ added = NoTensor /\ wv = NoTensor /\ out = NoTensor

\* lines 103-107: TextDecoder builds the mask for the length of its input
BuildMask ==
  /\ apc = "start"
  /\ use_mask
  /\ mask' = causal_mask(x[2], 0)
  /\ apc' = "project"
  /\ UNCHANGED <<x, xa, n_head, use_mask, q, k, v, qk, added, wv, out>>
  /\ UNCHANGED mvars

\* lines 67-68: a block called without a mask
NoMask ==
  /\ apc = "start"
  /\ ~use_mask
  /\ apc' = "project"
  /\ UNCHANGED <<x, xa, n_head, use_mask, mask, q, k, v, qk, added, wv, out>>
  /\ UNCHANGED mvars

\* lines 38-40
Project ==
  /\ apc = "project"
  /\ LET n_state == x[3]
         kv == IF xa = NoTensor THEN x ELSE xa
     IN /\ q' = Linear(x, n_state, n_state)
        /\ k' = Linear(kv, n_state, n_state)
        /\ v' = Linear(kv, n_state, n_state)
  /\ apc' = "split"
  /\ UNCHANGED <<x, xa, n_head, use_mask, mask, qk, added, wv, out>>
  /\ UNCHANGED mvars

\* lines 46-50
SplitHeads ==
  /\ apc = "split"
  /\ q' = permute(reshape_heads(q, n_head), <<0, 2, 1, 3>>)
  /\ k' = permute(reshape_heads(k, n_head), <<0, 2, 3, 1>>)
  /\ v' = permute(reshape_heads(v, n_head), <<0, 2, 1, 3>>)
  /\ apc' = "scores"
  /\ UNCHANGED <<x, xa, n_head, use_mask, mask, qk, added, wv, out>>
  /\ UNCHANGED mvars

\* line 51
Scores ==
  /\ apc = "scores"
  /\ qk' = matmul(q, k)
  /\ apc' = "add_mask"
  /\ UNCHANGED <<x, xa, n_head, use_mask, mask, q, k, v, added, wv, out>>
  /\ UNCHANGED mvars

\* line 52; n_ctx is the query length (line 46)
AddMask ==
  /\ apc = "add_mask"
  /\ IF mask # NoTensor
       THEN /\ added' = slice2(mask, x[2])
            /\ qk' = broadcast(qk, shape_of(slice2(mask, x[2])))
       ELSE UNCHANGED <<added, qk>>
  /\ apc' = "weigh"
  /\ UNCHANGED <<x, xa, n_head, use_mask, mask, q, k, v, wv, out>>
  /\ UNCHANGED mvars

\* lines 53-54: softmax keeps the shape
WeighValues ==
  /\ apc = "weigh"
  /\ wv' = flatten(permute(matmul(qk, v), <<0, 2, 1, 3>>))
  /\ apc' = "output"
  /\ UNCHANGED <<x, xa, n_head, use_mask, mask, q, k, v, qk, added, out>>
  /\ UNCHANGED mvars

\* line 43
Output ==
  /\ apc = "output"
  /\ out' = Linear(wv, x[3], x[3])
  /\ apc' = "done"
  /\ UNCHANGED <<x, xa, n_head, use_mask, mask, q, k, v, qk, added, wv>>
  /\ UNCHANGED mvars

\* lines 338-340: the next decoder call has a prefix one token longer, and
\* nothing of the previous call is kept
NextCall ==
  /\ apc = "done"
  /\ use_mask
  /\ x[2] < MaxLen
  /\ x' = [x EXCEPT ![2] = x[2] + 1]
  /\ mask' = NoTensor /\ q' = NoTensor /\ k' = NoTensor /\ v' = NoTensor
  /\ qk' = NoTensor /\ added' = NoTensor /\ wv' = NoTensor
  /\ out' = NoTensor
  /\ apc' = "start"
  /\ UNCHANGED <<xa, n_head, use_mask>>
  /\ UNCHANGED mvars

NextAttn ==
  \/ BuildMask
  \/ NoMask
  \/ Project
  \/ SplitHeads
  \/ Scores
  \/ AddMask
  \/ WeighValues
  \/ Output
  \/ NextCall

SpecAttn == InitAttn /\ [][NextAttn]_vars

(* ----------------------------- properties ----------------------------- *)
IsPrefix(s, t) == Len(s) <= Len(t) /\ SubSeq(t, 1, Len(s)) = s

Last(s) == s[Len(s)]

\* positions from the first loop test of a cycle to its commit
LoopPCs == InnerTry \cup {"loop_test", "commit"}

\* C1: when a phrase is completed because the time since its audio arrived
\* exceeded phrase_timeout (no end-of-text marker, no cancellation), the
\* commit adds exactly one entry to the transcript, that entry is empty, and
\* the entry before it holds the committed phrase text.
C1_PhraseBoundaryOpensEmptyEntry ==
  [][(/\ pc = "commit" /\ pc' = "poll"
      /\ phrase_complete /\ ~cancelled
      /\ phrase_age > phrase_timeout /\ ~Contains(text, EOTText))
       => /\ Len(transcription') = Len(transcription) + 1
          /\ Last(transcription') = <<>>
          /\ transcription'[Len(transcription)] = text]_vars

\* C2: after every completed decode step of an open phrase (the step's text
\* has been computed) the last transcript entry is the decoding of the whole
\* token sequence.
C2_LastEntryTracksDecode ==
  (pc = "check" /\ ~phrase_complete) => Last(transcription) = decode(lst)

\* C3: the entries appended for completed phrases (every entry after the
\* initial one) are never changed or removed by any later step.
C3_CompletedEntriesImmutable ==
  [][\A i \in 2..Len(transcription) :
        /\ i <= Len(transcription')
        /\ transcription'[i] = transcription[i]]_vars

\* C4: in every poll-and-decode cycle the encoder has been called exactly
\* once from the first loop test on and not at all before it, no decoder call
\* precedes it, and every decoder call received the memory of that one call.
C4_EncodeOncePerCycle ==
  /\ pc \in LoopPCs => cycle_encodes = 1
  /\ pc \in {"drain", "get", "encode"} => (cycle_encodes = 0 /\ cycle_decodes = 0)
  /\ (pc \in LoopPCs /\ cycle_decodes > 0) => dec_mem = encoded_audio
  /\ (pc \in InnerTry \cup {"loop_test"} /\ ~phrase_complete)
       => encoded_audio = encoder(last_sample)

C4_Witness ==
  pc = "check" /\ cycle_decodes = 2 /\ cycle_encodes = 1 /\ dec_mem = encoded_audio

\* C5: the token sequence of a cycle starts as <<SOT>>, has length k+1 after
\* k decode steps, and a step only appends one id to what is already there.
C5_TokenSequenceGrowth ==
  [][/\ pc' \in LoopPCs
          => (lst'[1] = SOT /\ Len(lst') = cycle_decodes' + 1)
     /\ lst' # lst
          => \/ pc = "encode" /\ lst' = <<SOT>>
             \/ /\ pc = "decode"
                /\ Len(lst') = Len(lst) + 1
                /\ SubSeq(lst', 1, Len(lst)) = lst]_vars

C5_Witness ==
  pc = "check" /\ cycle_decodes = 2 /\ Len(lst) = 3

\* C6: the chunks dequeued so far followed by the chunks still queued are
\* the chunks enqueued, in order, and the raw-sample buffer is exactly the
\* chunks dequeued since the buffer was last reset, in order.
C6_QueueFifoNoLoss ==
  /\ dequeued \o data_queue = [i \in 1..produced |-> i]
  /\ (IF last_sample = None THEN <<>> ELSE last_sample)
       = SubSeq(dequeued, reset_at + 1, Len(dequeued))

C6_Witness ==
  pc = "get" /\ last_sample = <<1>> /\ data_queue = <<2>> /\ produced = 2

\* C7: from the end of the drain to the exit of the decode loop nothing is
\* dequeued: the queue only grows at its tail, the encoder memory does not
\* change, the buffer is changed only by its reset, and a dequeue happens
\* only in the drain of a cycle that has not encoded yet.
C7_NoDequeueWhileDecoding ==
  [][/\ decoding
          => /\ dequeued' = dequeued
             /\ IsPrefix(data_queue, data_queue')
             /\ (pc # "encode" => encoded_audio' = encoded_audio)
             /\ (last_sample' = last_sample \/ last_sample' = None)
     /\ dequeued' # dequeued
          => (pc = "get" /\ cycle_encodes = 0 /\ ~decoding)]_vars

C7_Witness ==
  decoding /\ pc = "check" /\ cycle_decodes = 1 /\ data_queue = <<2>> /\ dequeued = <<1>>

\* C8: the commit that follows a cancelled decode loop leaves the controller
\* as a timeout exit does: phrase marked complete, buffer reset, and the text
\* appended to the transcript as the phrase's entry.
C8_CancelActsLikeTimeout ==
  [][(pc = "commit" /\ cancelled /\ pc' = "poll")
       => /\ phrase_complete'
          /\ last_sample' = None
          /\ transcription' = Append(transcription, text)]_vars

\* C9: the commit that follows a cancelled decode loop writes the decoding
\* of the current token sequence, never an unassigned or an older text.
C9_CancelWritesCurrentText ==
  [][(pc = "commit" /\ cancelled /\ pc' # pc /\ interrupts' = interrupts)
       => /\ text # Unbound
          /\ pc' = "poll"
          /\ Last(transcription') = decode(lst)]_vars

\* C10: once a decode loop has been cancelled the controller does not return
\* to the poll.
C10_CancelStopsPolling ==
  ~(cancelled /\ pc = "poll")

\* the exit condition of line 350, written out
ExitCond == phrase_age > phrase_timeout \/ Contains(text, EOTText)

\* C12: the test after a decode step sends the loop to its exit exactly when
\* the time since phrase_time exceeds phrase_timeout or the text contains the
\* end-of-text marker; a phrase is marked complete, and the loop left through
\* its condition, only after a test that found one of them; no decoder call
\* follows such a test in the same cycle.
C12_ExitIffTimeoutOrMarker ==
  [][/\ (pc = "check" /\ pc' # pc /\ interrupts' = interrupts)
          => /\ (pc' = "set_complete") <=> ExitCond
             /\ (pc' # "set_complete") => pc' = "loop_test"
     /\ (phrase_complete' /\ ~phrase_complete)
          => (last_check = "exit" /\ ExitCond)
     /\ (pc = "loop_test" /\ pc' = "commit")
          => (last_check = "exit" /\ ExitCond)
     /\ (pc = "loop_test" /\ pc' = "decode") => last_check # "exit"
     /\ (cycle_decodes' = cycle_decodes + 1) => last_check # "exit"]_vars

C12_Witness ==
  /\ pc = "set_complete" /\ cycle_decodes = 2 /\ last_check = "exit"
  /\ phrase_age > phrase_timeout /\ ~Contains(text, EOTText)

\* C13: whenever the decode loop has been left the raw-sample buffer is
\* reset, and the buffer that is encoded holds exactly the chunks dequeued in
\* the current cycle.
C13_BufferResetOnEveryExit ==
  /\ pc = "commit" => last_sample = None
  /\ pc = "encode"
       => last_sample = SubSeq(dequeued, Len(dequeued) - cycle_gets + 1,
                               Len(dequeued))

\* C14: a poll that finds the queue empty leaves the consumer at the poll
\* (or, interrupted, at the dump) with transcript, buffer, phrase flag, token
\* sequence, text and encoder memory unchanged, no encoder or decoder call and
\* phrase_time not set anew; the encode is entered only after at least one
\* get in the same cycle.
C14_EmptyPollIsNoOp ==
  [][/\ (pc = "poll" /\ data_queue = <<>>)
          => /\ pc' \in {"poll", "dump"}
             /\ UNCHANGED <<transcription, last_sample, phrase_complete,
                            encoded_audio, lst, text, cycle_encodes,
                            cycle_decodes, dequeued>>
             /\ \/ phrase_age' = phrase_age
                \/ phrase_age # NoTime /\ phrase_age' = phrase_age + 1
     /\ pc' = "encode" => (cycle_gets' >= 1 /\ last_sample' # None)]_vars

C14_Witness ==
  pc = "poll" /\ data_queue = <<>> /\ completed = 1 /\ produced = 1

\* C16: the exit test is reached only after a decoder call has appended a
\* token; the loop is left through its condition only after at least one
\* step, and the first pass of the loop test goes to the decoder even when
\* the phrase timeout has already passed.
C16_TimeoutOnlyAfterToken ==
  [][/\ pc' = "check" => (cycle_decodes' >= 1 /\ Len(lst') >= 2)
     /\ (pc = "loop_test" /\ pc' = "commit")
          => (cycle_decodes >= 1 /\ Len(lst) >= 2)
     /\ (pc = "loop_test" /\ cycle_decodes = 0 /\ pc' # pc
           /\ interrupts' = interrupts)
          => pc' = "decode"
     /\ phrase_complete' => cycle_decodes' >= 1]_vars

C16_Witness ==
  pc = "decode" /\ cycle_decodes = 0 /\ phrase_age > phrase_timeout

\* C17 as stated: in every reachable state the transcript has one entry more
\* than there are phrases marked complete.
C17_EntriesEqualCompletedPlusOne ==
  Len(transcription) = 1 + completed

\* C17 amended: at the poll the transcript has one entry more than there are
\* phrases marked complete; elsewhere it has that many or one less, and one
\* less only between the marking of a phrase and its commit or after an
\* interrupt ended the run in between.
C17_EntriesAtPoll ==
  /\ pc = "poll" => Len(transcription) = 1 + completed
  /\ Len(transcription) \in {completed, 1 + completed}
  /\ Len(transcription) = completed
       => /\ phrase_complete
          /\ pc \in {"reset_sample", "loop_test", "commit", "dump", "done",
                     "killed"}

C17_Witness ==
  pc = "poll" /\ cancelled /\ completed = 1 /\ Len(transcription) = 2

\* C18: the token sequence that is about to be handed to the decoder never
\* has more than n_text_ctx ids, so it fits the positional embedding.
C18_PrefixWithinContext ==
  pc = "decode" => Len(lst) <= n_text_ctx

\* the additive mask the claim describes for a prefix of length n
ExpectedMask(n) ==
  [i \in 1..n |-> [j \in 1..n |-> IF j > i THEN NegInf ELSE 0]]

\* C11: when an attention call has finished, for self-attention with or
\* without mask and for cross-attention over a different length, the shape of
\* its result is the shape of the query input, and no step met a shape error.
C11_AttendKeepsQueryShape ==
  /\ apc = "done" => out = x
  /\ \A t \in {q, k, v, qk, wv, out} : t # ShapeError
  /\ apc \in {"add_mask", "weigh", "output", "done"}
       => qk = <<x[1], n_head, x[2], (IF xa = NoTensor THEN x ELSE xa)[2]>>

C11_Witness ==
  /\ apc = "done" /\ out = <<2, 3, 4>> /\ n_head = 2
  /\ xa = <<2, 1, 4>>

\* C15: from the moment TextDecoder has built its mask, the mask is n by n
\* for the current prefix length n, with minus infinity above the diagonal
\* and 0 on and below it; the slice added to the scores is that same matrix;
\* and every new call starts without a mask and builds its own.
C15_CausalMaskExact ==
  /\ (use_mask /\ apc \notin {"start", "idle"})
       => mask = << << ExpectedMask(x[2]) >> >>
  /\ (use_mask /\ apc \in {"weigh", "output", "done"})
       => /\ added = << << ExpectedMask(x[2]) >> >>
          /\ shape_of(added) = <<1, 1, x[2], x[2]>>
  /\ apc = "start" => mask = NoTensor

C15_Witness ==
  /\ use_mask /\ apc = "done" /\ x[2] = 4
  /\ mask[1][1] = << <<0, NegInf, NegInf, NegInf>>, <<0, 0, NegInf, NegInf>>,
                     <<0, 0, 0, NegInf>>, <<0, 0, 0, 0>> >>

====
